---- MODULE Spec2Model ----
(***************************************************************************)
(* Model of the UV Sculpt brush of Magic UV                                *)
(* (src/uv_magic_uv/op/uv_sculpt.py): the class-level running state        *)
(* (draw handle and timer), the stroke state of one operator instance and  *)
(* the three deformation tools writing the UV layer of an edit mesh.       *)
(*                                                                         *)
(* Numbers: the code computes with floats; the model computes with exact   *)
(* rationals <<n, d>> (d > 0, lowest terms), 2D vectors being pairs of     *)
(* rationals.  Faces and loops are numbered from 1 (the code: from 0).     *)
(***************************************************************************)
EXTENDS Integers, Sequences, FiniteSets, TLC

(***************************************************************************)
(* Bounds of the exploration.                                              *)
(***************************************************************************)
\* strokes (press that runs __stroke_init) explored per run
MaxStrokes == 2
\* Pinch/Relax ticks (cumulative UV updates) explored per run
MaxTicks == 1
\* the falloff specification draws distances 0, 1/2, 1, ... up to MaxDist
MaxDist == 11
\* flip/rotate calls per run of the flip/rotate specification, and the
\* largest rotate_copied_uv it draws (the property allows 0 .. 30)
MaxFlipRotateCalls == 2
MaxRotate == 8
\* copy and paste operator calls per run of the copy/paste specification
MaxCopies == 1
MaxPastes == 1
\* longest selection history (bm.select_history) an operator is given
MaxHistory == 2
\* copy operator calls per run of the clipboard specification
MaxClipCopies == 2
\* strokes and Relax ticks explored per run of the relax specification
MaxRelaxStrokes == 1
MaxRelaxTicks == 2

(***************************************************************************)
(* Exact rational arithmetic (stands for Python floats / mathutils.Vector).*)
(***************************************************************************)
Abs(n) == IF n < 0 THEN -n ELSE n

RECURSIVE Gcd(_, _)
Gcd(a, b) == IF b = 0 THEN a ELSE Gcd(b, a % b)

Rat(n, d) ==
    LET s == IF d < 0 THEN -1 ELSE 1
        g == Gcd(Abs(n), Abs(d))
    IN  <<(s * n) \div g, (s * d) \div g>>

RInt(n) == <<n, 1>>
RZero == RInt(0)
ROne == RInt(1)
RAdd(a, b) == Rat(a[1] * b[2] + b[1] * a[2], a[2] * b[2])
RSub(a, b) == Rat(a[1] * b[2] - b[1] * a[2], a[2] * b[2])
RMul(a, b) == Rat(a[1] * b[1], a[2] * b[2])
\* a / b; b is never zero where the model divides
RDiv(a, b) == Rat(a[1] * b[2], a[2] * b[1])
RLt(a, b) == a[1] * b[2] < b[1] * a[2]
RLe(a, b) == a[1] * b[2] <= b[1] * a[2]

Vec(x, y) == <<x, y>>
VInt(p) == <<RInt(p[1]), RInt(p[2])>>
VZero == <<RZero, RZero>>
VAdd(a, b) == <<RAdd(a[1], b[1]), RAdd(a[2], b[2])>>
VSub(a, b) == <<RSub(a[1], b[1]), RSub(a[2], b[2])>>
VScale(a, k) == <<RMul(a[1], k), RMul(a[2], k)>>
VDiv(a, k) == <<RDiv(a[1], k), RDiv(a[2], k)>>

\* floor of the square root
RECURSIVE ISqrtFrom(_, _)
ISqrtFrom(n, k) == IF (k + 1) * (k + 1) > n THEN k ELSE ISqrtFrom(n, k + 1)
ISqrt(n) == ISqrtFrom(n, 0)

\* Vector.length of the difference of two integer screen points.  Every
\* pair (vertex projection, press position) of this model has an integer
\* distance, so the root is exact there.
Length(p, q) ==
    RInt(ISqrt((p[1] - q[1]) * (p[1] - q[1]) + (p[2] - q[2]) * (p[2] - q[2])))

(***************************************************************************)
(* The edit mesh: two triangles sharing the edge B-C.  Vertices A and D    *)
(* have one incident loop, B and C have two.                               *)
(***************************************************************************)
Verts == {"A", "B", "C", "D"}
\* bm.faces[f].loops[i].vert
FaceVerts == << <<"A", "B", "C">>, <<"B", "D", "C">> >>
Faces == DOMAIN FaceVerts
LoopsOf(f) == DOMAIN FaceVerts[f]
\* every loop <<f, i>> in the order "for f in bm.faces: for l in f.loops"
AllLoops == << <<1, 1>>, <<1, 2>>, <<1, 3>>, <<2, 1>>, <<2, 2>>, <<2, 3>> >>
LoopSet == {AllLoops[k] : k \in DOMAIN AllLoops}
VertOf(l) == FaceVerts[l[1]][l[2]]
\* l.link_loop_next / l.link_loop_prev: the next and previous corner of the face
link_loop_next(l) == <<l[1], IF l[2] = Len(FaceVerts[l[1]]) THEN 1 ELSE l[2] + 1>>
link_loop_prev(l) == <<l[1], IF l[2] = 1 THEN Len(FaceVerts[l[1]]) ELSE l[2] - 1>>

\* location_3d_to_region_2d(region, rv3d, world_mat * v.co): the projected
\* position of each vertex (the view and the vertices do not move)
Loc2d == [v \in Verts |->
            CASE v = "A" -> <<0, 0>>
              [] v = "B" -> <<8, 0>>
              [] v = "C" -> <<4, 3>>
              [] v = "D" -> <<8, 6>>]

\* the UV layer before the first stroke
InitialUV == [l \in LoopSet |->
            CASE l = <<1, 1>> -> Vec(RZero, RZero)
              [] l = <<1, 2>> -> Vec(ROne, RZero)
              [] l = <<1, 3>> -> Vec(Rat(1, 5), Rat(3, 10))
              [] l = <<2, 1>> -> Vec(ROne, RZero)
              [] l = <<2, 2>> -> Vec(ROne, ROne)
              [] l = <<2, 3>> -> Vec(Rat(1, 2), Rat(1, 2))]

\* the viewport (area.width, area.height) and the cursor positions events carry
Area == [width |-> 10, height |-> 6]
InViewPos == {<<0, 0>>, <<4, 3>>, <<10, 0>>}
OutViewPos == {<<-1, 0>>, <<4, 7>>}
\* positions a press is delivered at: the in-view positions whose distance
\* to every vertex projection is an integer
PressPos == {<<0, 0>>, <<4, 3>>}
EventPos == InViewPos \cup OutViewPos

\* scene properties muv_uvsculpt_*: fixed for the run
Config(tool, radius, strength, invert, method) ==
    [muv_uvsculpt_tools |-> tool, muv_uvsculpt_radius |-> radius,
     muv_uvsculpt_strength |-> strength, muv_uvsculpt_pinch_invert |-> invert,
     muv_uvsculpt_relax_method |-> method]
\* the scenes explored: brush settings and face selection (f.select)
Scene(tool, radius, strength, invert, method, sel) ==
    [sc |-> Config(tool, radius, strength, invert, method), select |-> sel]
Scenes ==
    {Scene("GRAB", RInt(10), ROne, FALSE, "HC", {1}),
     Scene("GRAB", RInt(10), Rat(1, 2), FALSE, "HC", {1, 2}),
     Scene("GRAB", RInt(5), ROne, FALSE, "HC", {1, 2}),
     Scene("GRAB", RInt(5), Rat(1, 2), FALSE, "HC", {1}),
     Scene("PINCH", RInt(10), ROne, FALSE, "HC", {1}),
     Scene("PINCH", RInt(5), Rat(1, 2), TRUE, "HC", {1, 2}),
     Scene("RELAX", RInt(10), ROne, FALSE, "HC", {1, 2}),
     Scene("RELAX", RInt(5), Rat(1, 2), FALSE, "LAPLACIAN", {1})}

(***************************************************************************)
(* Pin flags and seams of the edit mesh the brush works on.  A pin flag    *)
(* belongs to a loop, a seam to an edge (shared by the loops of the faces  *)
(* on both sides).                                                         *)
(***************************************************************************)
\* l.edge: from the vertex of l to the vertex of the next loop
EdgeOf(l) == {VertOf(l), VertOf(link_loop_next(l))}
MeshEdges == {EdgeOf(l) : l \in LoopSet}
InitialPin == [l \in LoopSet |-> VertOf(l) = "C"]
InitialSeam == [e \in MeshEdges |-> e = {"B", "C"}]

(***************************************************************************)
(* The objects the copy/paste operators work on (bpy.data.objects, in      *)
(* order), the faces of each (the vertex of every loop) and whether its    *)
(* mesh has a UV layer.  UV coordinates are copied, never computed with:   *)
(* each is a number naming the coordinate.                                 *)
(***************************************************************************)
Objects == <<"P", "Q", "R", "N">>
ObjNames == {Objects[k] : k \in DOMAIN Objects}
\* P: two triangles and a quad; Q: triangle, quad, triangle; R: triangle
\* and quad; N: one triangle
MeshFaces == [o \in ObjNames |->
    CASE o = "P" -> << <<"a", "b", "c">>, <<"b", "d", "c">>, <<"c", "d", "e", "f">> >>
      [] o = "Q" -> << <<"a", "b", "c">>, <<"b", "d", "e", "c">>, <<"c", "e", "f">> >>
      [] o = "R" -> << <<"a", "b", "c">>, <<"b", "d", "e", "c">> >>
      [] o = "N" -> << <<"a", "b", "c">> >>]
\* "bm.loops.layers.uv" is not empty
HasUVLayer(o) == o # "N"
FacesOf(o) == DOMAIN MeshFaces[o]
\* bm.faces[f].loops[i].edge
LoopEdge(o, f, i) ==
    {MeshFaces[o][f][i], MeshFaces[o][f][(i % Len(MeshFaces[o][f])) + 1]}
EdgesOf(o) == {LoopEdge(o, f, i) : <<f, i>> \in
                 {<<g, j>> \in FacesOf(o) \X (1 .. 4) : j \in DOMAIN MeshFaces[o][g]}}
ObjectIndex(o) == CHOOSE k \in DOMAIN Objects : Objects[k] = o
\* the meshes before the first paste
InitialObjects == [o \in ObjNames |->
    [uv |-> [f \in FacesOf(o) |-> [i \in DOMAIN MeshFaces[o][f] |->
                100 * ObjectIndex(o) + 10 * f + i]],
     pin_uv |-> [f \in FacesOf(o) |-> [i \in DOMAIN MeshFaces[o][f] |->
                (f + i) % 2 = 0]],
     seam |-> [e \in EdgesOf(o) |-> "a" \in e \/ "d" \in e]]]

\* a clipboard (src_uvs, src_pin_uvs, src_seams: one list per copied face)
EmptyClip == [src_uvs |-> <<>>, src_pin_uvs |-> <<>>, src_seams |-> <<>>]
\* context.scene.muv_props before the first copy (src_info of the face
\* operators: the face list of the one UV layer, empty for the empty dict)
InitialProps ==
    [cpuv |-> [src_info |-> <<>>], cpuv_selseq |-> EmptyClip, cpuv_obj |-> EmptyClip]
NoPaste == [op |-> "none"]
NoReport == [level |-> "none", msg |-> "none"]
NoFlipRotate ==
    [src |-> <<>>, flip |-> FALSE, rotate |-> 0, out |-> <<>>, calls |-> 0,
     history |-> <<>>]

(***************************************************************************)
(* State.                                                                  *)
(***************************************************************************)
VARIABLES
    handle,         \* MUV_UVSculpt.__handle is set (class attribute)
    timer,          \* MUV_UVSculpt.__timer is set (class attribute)
    modal_handler,  \* an operator instance was given to modal_handler_add
    stroking,       \* self.__stroking
    current_mco,    \* self.current_mco
    initial_mco,    \* self.__initial_mco
    loop_info,      \* self.__loop_info
    uv,             \* l[uv_layer].uv of every loop of the mesh
    sc,             \* context.scene: the muv_uvsculpt_* properties
    select,         \* the faces with f.select
    lastOp,         \* the handler that ran last
    lastResult,     \* what it returned, or the exception it raised
    lastEvent,      \* the event (type and value) modal looked at last
    lastCall,       \* the stroke method the last handler called, if any
    lastHit,        \* the result of tree.ray_cast in the last Pinch tick
    lastButton,     \* the last button event modal handled inside the viewport
    strokes,        \* number of __stroke_init calls so far
    ticks,          \* number of Pinch/Relax ticks so far
    gs,             \* the last two calls of __get_strength (falloff specification)
    pin_uv,         \* l[uv_layer].pin_uv of every loop of the edit mesh
    seam,           \* e.seam of every edge of the edit mesh
    lastReport,     \* the level of the last self.report of an operator
    props,          \* context.scene.muv_props: the three clipboards
    objects,        \* uv and pin_uv of every loop, seam of every edge, per object
    lastPaste,      \* the last copy or paste call: operator, object, faces, properties
    copies,         \* number of copy operator calls so far
    pastes,         \* number of paste operator calls so far
    fr              \* the last flip/rotate of a captured sequence (flip/rotate specification)

vars == <<handle, timer, modal_handler, stroking, current_mco, initial_mco,
          loop_info, uv, sc, select, lastOp, lastResult, lastEvent, lastCall,
          lastHit, lastButton, strokes, ticks, gs, pin_uv, seam, lastReport,
          props, objects, lastPaste, copies, pastes, fr>>

classVars == <<handle, timer, modal_handler>>
strokeVars == <<stroking, current_mco, initial_mco, loop_info>>
histVars == <<lastCall, lastHit, lastButton, strokes, ticks>>
\* what uv_sculpt.py never assigns: pin flags and seams (no statement of the
\* file writes pin_uv or seam), reports (it has no self.report), and the
\* state of the copy/paste operators
otherVars == <<pin_uv, seam, lastReport, props, objects, lastPaste, copies, pastes, fr>>

NoHit == [fidx |-> 0, w |-> <<RZero, RZero, RZero>>]
NoCall == [p |-> RZero, len_ |-> ROne, factor |-> RZero, result |-> RZero]
NoGs == [cur |-> NoCall, prev |-> NoCall, calls |-> 0]

(***************************************************************************)
(* MUV_UVSculpt.__get_strength                                             *)
(***************************************************************************)
get_strength_no_falloff(p, len_, factor) ==
    IF RLt(len_, p) THEN RZero ELSE factor

\* the falloff without the strength factor
get_strength_ignores_factor(p, len_, factor) ==
    IF RLt(len_, p) THEN RZero
    ELSE IF RLt(p, RZero) THEN ROne
    ELSE RDiv(RSub(len_, p), len_)

get_strength(p, len_, factor) ==
    IF RLt(len_, p) THEN RZero
    ELSE IF RLt(p, RZero) THEN factor
    ELSE RDiv(RMul(RSub(len_, p), factor), len_)

(***************************************************************************)
(* MUV_UVSculpt.is_running                                                 *)
(***************************************************************************)
is_running == handle

(***************************************************************************)
(* The influence set: the loop over the selected faces of __stroke_init    *)
(* (repeated at every Pinch tick).                                         *)
(***************************************************************************)
\* "diff.length < sc.muv_uvsculpt_radius"
InRadiusInclusive(d) == RLe(d, sc.muv_uvsculpt_radius)

\* the radius test on the magnitude of the radius
InRadiusAbs(d) ==
    RLt(d, RInt(Abs(sc.muv_uvsculpt_radius[1])))

InRadius(d) == RLt(d, sc.muv_uvsculpt_radius)

\* the selection of loops without the "if not f.select: continue"
InfluencedAnyFace(l, mco) == InRadius(Length(Loc2d[VertOf(l)], mco))

Influenced(l, mco) ==
    /\ l[1] \in select
    /\ InRadius(Length(Loc2d[VertOf(l)], mco))

Info(l, mco, uvNow) ==
    [face_idx |-> l[1],
     loop_idx |-> l[2],
     initial_vco_2d |-> Loc2d[VertOf(l)],
     initial_uv |-> uvNow[l],
     strength |-> get_strength(Length(Loc2d[VertOf(l)], mco),
                               sc.muv_uvsculpt_radius, sc.muv_uvsculpt_strength)]

Influence(mco, uvNow) ==
    LET hit == SelectSeq(AllLoops, LAMBDA l : Influenced(l, mco))
    IN  [k \in DOMAIN hit |-> Info(hit[k], mco, uvNow)]

InfoLoop(info) == <<info.face_idx, info.loop_idx>>
InfoLoops(infos) == {InfoLoop(infos[k]) : k \in DOMAIN infos}
\* the record of loop l in a list that holds one
InfoOf(infos, l) == infos[CHOOSE k \in DOMAIN infos : InfoLoop(infos[k]) = l]


(***************************************************************************)
(* MUV_UVSculpt.__stroke_apply, one operator per tool.  Each gives the UV  *)
(* layer after the tick from the UV layer uvNow before it.                 *)
(***************************************************************************)
Hundred == RInt(100)
Ten == RInt(10)

\* GRAB written cumulatively: displaces the current UV instead of the captured one
GrabCumulative(uvNow, mco) ==
    [l \in LoopSet |->
        IF l \in InfoLoops(loop_info)
        THEN LET info == InfoOf(loop_info, l)
                 diff_uv == VScale(VSub(VInt(mco), VInt(initial_mco)), info.strength)
             IN  VAdd(uvNow[l], VDiv(diff_uv, Hundred))
        ELSE uvNow[l]]

\* GRAB (also the body of __stroke_exit)
Grab(uvNow, mco) ==
    [l \in LoopSet |->
        IF l \in InfoLoops(loop_info)
        THEN LET info == InfoOf(loop_info, l)
                 diff_uv == VScale(VSub(VInt(mco), VInt(initial_mco)), info.strength)
             IN  VAdd(info.initial_uv, VDiv(diff_uv, Hundred))
        ELSE uvNow[l]]

\* tree.ray_cast: no hit, or the face hit and the barycentric weights of the
\* hit point in the triangle of the face's first three loops
RayCasts ==
    {NoHit} \cup
    {[fidx |-> 1, w |-> <<Rat(1, 2), Rat(1, 2), RZero>>],
     [fidx |-> 2, w |-> <<ROne, RZero, RZero>>]}

\* barycentric_transform(loc, v0, v1, v2, uv0, uv1, uv2)
barycentric_transform(hit, uvNow) ==
    VAdd(VAdd(VScale(uvNow[<<hit.fidx, 1>>], hit.w[1]),
              VScale(uvNow[<<hit.fidx, 2>>], hit.w[2])),
         VScale(uvNow[<<hit.fidx, 3>>], hit.w[3]))

\* the writes of a PINCH tick that ignores muv_uvsculpt_pinch_invert
PinchMoveNoInvert(uvNow, hit) ==
    LET infos == Influence(initial_mco, uvNow)
        target_uv == barycentric_transform(hit, uvNow)
    IN  [l \in LoopSet |->
            IF l \in InfoLoops(infos)
            THEN LET info == InfoOf(infos, l)
                     diff_uv == VScale(VSub(target_uv, uvNow[l]), info.strength)
                 IN  VAdd(uvNow[l], VDiv(diff_uv, Ten))
            ELSE uvNow[l]]

\* the writes of a PINCH tick that measures from the cursor of the tick
PinchMoveAtCursor(uvNow, hit) ==
    LET infos == Influence(current_mco', uvNow)
        target_uv == barycentric_transform(hit, uvNow)
    IN  [l \in LoopSet |->
            IF l \in InfoLoops(infos)
            THEN LET info == InfoOf(infos, l)
                     diff_uv == IF sc.muv_uvsculpt_pinch_invert
                                THEN VScale(VSub(uvNow[l], target_uv), info.strength)
                                ELSE VScale(VSub(target_uv, uvNow[l]), info.strength)
                 IN  VAdd(uvNow[l], VDiv(diff_uv, Ten))
            ELSE uvNow[l]]

\* the writes of a PINCH tick whose ray cast hit a face
PinchMove(uvNow, hit) ==
    LET infos == Influence(initial_mco, uvNow)
        target_uv == barycentric_transform(hit, uvNow)
    IN  [l \in LoopSet |->
            IF l \in InfoLoops(infos)
            THEN LET info == InfoOf(infos, l)
                     diff_uv == IF sc.muv_uvsculpt_pinch_invert
                                THEN VScale(VSub(uvNow[l], target_uv), info.strength)
                                ELSE VScale(VSub(target_uv, uvNow[l]), info.strength)
                 IN  VAdd(uvNow[l], VDiv(diff_uv, Ten))
            ELSE uvNow[l]]

\* PINCH without the "if not loc: return": a miss pulls toward the UV origin
PinchNoMissCheck(uvNow, hit) ==
    IF hit = NoHit
    THEN PinchMove(uvNow, [fidx |-> 1, w |-> <<RZero, RZero, RZero>>])
    ELSE PinchMove(uvNow, hit)

\* PINCH
Pinch(uvNow, hit) ==
    IF hit = NoHit THEN uvNow ELSE PinchMove(uvNow, hit)

\* the function f with every value computed (once)
Tabulated(f) == f @@ <<>>

RECURSIVE VSum(_)
VSum(s) == IF s = <<>> THEN VZero ELSE VAdd(Head(s), VSum(Tail(s)))

\* vert_db[v]["loops"]
VertLoops(v) == SelectSeq(AllLoops, LAMBDA l : VertOf(l) = v)
\* vert_db[v]["uv_count"]
uv_count(v) == 2 * Len(VertLoops(v))
\* vert_db[v]["uv_p"]
uv_p(v, uvNow) ==
    LET ls == VertLoops(v)
        uv_sum == VSum([k \in DOMAIN ls |->
                    VAdd(uvNow[link_loop_next(ls[k])], uvNow[link_loop_prev(ls[k])])])
    IN  VDiv(uv_sum, RInt(uv_count(v)))
\* vert_db[v]["uv_b"], from the uv_p of the vertex
uv_b(v, uvNow, p) == VSub(p, uvNow[VertLoops(v)[1]])
\* vert_db[v]["uv_sum_b"], from the uv_b of every vertex (pass 1 is complete)
uv_sum_b(v, b) ==
    LET ls == VertLoops(v)
    IN  VSum([k \in DOMAIN ls |->
            VAdd(b[VertOf(link_loop_next(ls[k]))], b[VertOf(link_loop_prev(ls[k]))])])

\* vert_db after the two passes of lines 268-289
vert_db(uvNow) ==
    LET p == Tabulated([v \in Verts |-> uv_p(v, uvNow)])
        b == Tabulated([v \in Verts |-> uv_b(v, uvNow, p[v])])
    IN  Tabulated([v \in Verts |->
            [uv_count |-> uv_count(v), uv_p |-> p[v], uv_b |-> b[v],
             uv_sum_b |-> uv_sum_b(v, b)]])

\* RELAX whose LAPLACIAN branch adds to the unscaled UV ("base" without the
\* factor 1.0 - strength)
RelaxBaseUnscaled(uvNow, lastKey) ==
    LET db == vert_db(uvNow)
    IN  [l \in LoopSet |->
        IF Influenced(l, initial_mco)
        THEN LET v == VertOf(l)
                 strength == get_strength(Length(Loc2d[v], initial_mco),
                                 sc.muv_uvsculpt_radius, sc.muv_uvsculpt_strength)
             IN  VAdd(uvNow[l], VScale(db[v].uv_p, strength))
        ELSE uvNow[l]]

\* RELAX.  lastKey is the vertex the loops over vert_db.keys() ended on: the
\* apply pass reads d["uv_count"] of that vertex (line 308), and the order
\* of the keys of a dict of vertices is not fixed by the code.
Relax(uvNow, lastKey) ==
    LET db == vert_db(uvNow)
    IN  [l \in LoopSet |->
        IF Influenced(l, initial_mco)
        THEN LET v == VertOf(l)
                 strength == get_strength(Length(Loc2d[v], initial_mco),
                                 sc.muv_uvsculpt_radius, sc.muv_uvsculpt_strength)
                 base == VScale(uvNow[l], RSub(ROne, strength))
             IN  IF sc.muv_uvsculpt_relax_method = "HC"
                 THEN LET t == VScale(VAdd(db[v].uv_b,
                                           VDiv(db[v].uv_sum_b,
                                                RInt(db[lastKey].uv_count))),
                                      Rat(1, 2))
                      IN  VAdd(base, VScale(VSub(db[v].uv_p, t), strength))
                 ELSE IF sc.muv_uvsculpt_relax_method = "LAPLACIAN"
                 THEN VAdd(base, VScale(db[v].uv_p, strength))
                 ELSE uvNow[l]
        ELSE uvNow[l]]

stroke_apply(uvNow, mco, hit, lastKey) ==
    CASE sc.muv_uvsculpt_tools = "GRAB" -> Grab(uvNow, mco)
      [] sc.muv_uvsculpt_tools = "PINCH" -> Pinch(uvNow, hit)
      [] sc.muv_uvsculpt_tools = "RELAX" -> Relax(uvNow, lastKey)
      [] OTHER -> uvNow

(***************************************************************************)
(* MUV_UVSculpt.__stroke_exit                                              *)
(***************************************************************************)
stroke_exit(uvNow, mco) ==
    IF sc.muv_uvsculpt_tools = "GRAB" THEN Grab(uvNow, mco) ELSE uvNow


(***************************************************************************)
(* Initial state: no handle, no timer, no operator instance registered.    *)
(***************************************************************************)
InitWith(scenes, fields) ==
    /\ handle = FALSE
    /\ timer = FALSE
    /\ modal_handler = FALSE
    /\ stroking = FALSE
    /\ current_mco = <<0, 0>>
    /\ initial_mco = <<0, 0>>
    /\ loop_info = <<>>
    /\ uv \in fields
    /\ \E scene \in scenes : sc = scene.sc /\ select = scene.select
    /\ lastOp = "none"
    /\ lastResult = "none"
    /\ lastEvent = "none"
    /\ lastCall = "none"
    /\ lastHit = NoHit
    /\ lastButton = "none"
    /\ strokes = 0
    /\ ticks = 0
    /\ gs = NoGs
    /\ pin_uv = InitialPin
    /\ seam = InitialSeam
    /\ lastReport = NoReport
    /\ props = InitialProps
    /\ objects = InitialObjects
    /\ lastPaste = NoPaste
    /\ copies = 0
    /\ pastes = 0
    /\ fr = NoFlipRotate

InitIn(scenes) == InitWith(scenes, {InitialUV})

Init == InitIn(Scenes)

(***************************************************************************)
(* MUV_UVSculpt.handle_add(obj, context), called with both its arguments   *)
(* and a newly constructed operator obj (__init__, lines 134-138).  The    *)
(* operator becomes the one whose modal() receives the events.             *)
(***************************************************************************)
handle_add ==
    /\ lastOp' = "handle_add"
    /\ lastResult' = "None"
    /\ lastEvent' = "none"
    /\ lastCall' = "none"
    /\ handle' = TRUE
    /\ IF ~timer
       THEN /\ timer' = TRUE
            /\ modal_handler' = TRUE
            /\ stroking' = FALSE
            /\ current_mco' = <<0, 0>>
            /\ initial_mco' = <<0, 0>>
            /\ loop_info' = <<>>
            /\ lastButton' = "none"
       ELSE UNCHANGED <<timer, modal_handler, strokeVars, lastButton>>
    /\ UNCHANGED <<uv, sc, select, lastHit, strokes, ticks, gs, otherVars>>

(***************************************************************************)
(* MUV_UVSculpt.handle_remove(context)                                     *)
(***************************************************************************)
handle_remove ==
    /\ handle' = FALSE
    /\ timer' = FALSE

(***************************************************************************)
(* MUV_UVSculpt.execute: the toggle.  Running: handle_remove(context).     *)
(* Not running: handle_add(context) lacks an argument of                   *)
(* handle_add(cls, obj, context), so the call raises TypeError before      *)
(* handle_add runs.  whoCalls is the operator the call came through.       *)
(***************************************************************************)
execute_body(whoCalls, okResult) ==
    /\ lastOp' = whoCalls
    /\ lastEvent' = "none"
    /\ lastCall' = "none"
    /\ IF is_running
       THEN /\ handle_remove
            /\ lastResult' = okResult
       ELSE /\ lastResult' = "TypeError"
            /\ UNCHANGED <<handle, timer>>
    /\ UNCHANGED <<modal_handler, strokeVars, uv, sc, select, lastHit, lastButton,
                   strokes, ticks, gs, otherVars>>

execute == execute_body("execute", "RUNNING_MODAL")

Cancelled(whoCalls) ==
    /\ lastOp' = whoCalls
    /\ lastResult' = "CANCELLED"
    /\ lastEvent' = "none"
    /\ lastCall' = "none"
    /\ UNCHANGED <<classVars, strokeVars, uv, sc, select, lastHit, lastButton,
                   strokes, ticks, gs, otherVars>>

(***************************************************************************)
(* MUV_UVSculptEnable.execute and MUV_UVSculptDisable.execute: both go     *)
(* through bpy.ops.uv.muv_uvsculpt(), that is MUV_UVSculpt.execute; an     *)
(* exception raised there leaves the caller too.                           *)
(***************************************************************************)
Enable ==
    IF is_running THEN Cancelled("enable") ELSE execute_body("enable", "FINISHED")

Disable ==
    IF ~is_running THEN Cancelled("disable") ELSE execute_body("disable", "FINISHED")


(***************************************************************************)
(* MUV_UVSculpt.modal(context, event).  ev is the event's type and value,  *)
(* pos its (mouse_region_x, mouse_region_y); hit and lastKey are what the  *)
(* ray cast and the iteration over vert_db give in a Pinch or Relax tick.  *)
(***************************************************************************)
EventTypes == {"PRESS", "RELEASE", "MOUSEMOVE", "TIMER"}

\* the viewport test on x alone
InViewXOnly(pos) == ~(pos[1] < 0 \/ pos[1] > Area.width)

\* not (x < 0 or x > area.width or y < 0 or y > area.height)
InView(pos) ==
    ~(pos[1] < 0 \/ pos[1] > Area.width \/ pos[2] < 0 \/ pos[2] > Area.height)

\* an event outside the viewport that ends the stroke
modal_out_of_view_exits(pos) ==
    /\ current_mco' = pos
    /\ lastResult' = "PASS_THROUGH"
    /\ stroking' = FALSE
    /\ IF stroking
       THEN /\ uv' = stroke_exit(uv, pos)
            /\ lastCall' = "exit"
       ELSE /\ lastCall' = "none"
            /\ UNCHANGED uv
    /\ UNCHANGED <<initial_mco, loop_info, lastHit, lastButton, strokes, ticks>>

\* lines 346-351: the cursor is stored, then the event is passed through
modal_out_of_view(pos) ==
    /\ current_mco' = pos
    /\ lastResult' = "PASS_THROUGH"
    /\ lastCall' = "none"
    /\ UNCHANGED <<stroking, initial_mco, loop_info, uv, lastHit, lastButton,
                   strokes, ticks>>

\* a press whose Init captures the cursor stored before this event
modal_press_stale_cursor(pos) ==
    /\ current_mco' = pos
    /\ stroking' = TRUE
    /\ lastButton' = "PRESS"
    /\ lastResult' = "RUNNING_MODAL"
    /\ IF ~stroking
       THEN /\ initial_mco' = current_mco
            /\ loop_info' = Influence(current_mco, uv)
            /\ lastCall' = "init"
            /\ strokes' = strokes + 1
       ELSE /\ lastCall' = "none"
            /\ UNCHANGED <<initial_mco, loop_info, strokes>>
    /\ lastHit' = NoHit
    /\ UNCHANGED <<uv, ticks>>

\* a press whose Init lacks "self.__loop_info = []" and appends to the old list
modal_press_appends(pos) ==
    /\ current_mco' = pos
    /\ stroking' = TRUE
    /\ lastButton' = "PRESS"
    /\ lastResult' = "RUNNING_MODAL"
    /\ IF ~stroking
       THEN /\ initial_mco' = pos
            /\ loop_info' = loop_info \o Influence(pos, uv)
            /\ lastCall' = "init"
            /\ strokes' = strokes + 1
       ELSE /\ lastCall' = "none"
            /\ UNCHANGED <<initial_mco, loop_info, strokes>>
    /\ lastHit' = NoHit
    /\ UNCHANGED <<uv, ticks>>

\* lines 354-357, with __stroke_init (lines 151-182)
modal_press(pos) ==
    /\ current_mco' = pos
    /\ stroking' = TRUE
    /\ lastButton' = "PRESS"
    /\ lastResult' = "RUNNING_MODAL"
    /\ IF ~stroking
       THEN /\ initial_mco' = pos
            /\ loop_info' = Influence(pos, uv)
            /\ lastCall' = "init"
            /\ strokes' = strokes + 1
       ELSE /\ lastCall' = "none"
            /\ UNCHANGED <<initial_mco, loop_info, strokes>>
    /\ lastHit' = NoHit
    /\ UNCHANGED <<uv, ticks>>

\* lines 358-361, with __stroke_exit (lines 321-334)
modal_release(pos) ==
    /\ current_mco' = pos
    /\ stroking' = FALSE
    /\ lastButton' = "RELEASE"
    /\ lastResult' = "RUNNING_MODAL"
    /\ IF stroking
       THEN /\ uv' = stroke_exit(uv, pos)
            /\ lastCall' = "exit"
       ELSE /\ lastCall' = "none"
            /\ UNCHANGED uv
    /\ lastHit' = NoHit
    /\ UNCHANGED <<initial_mco, loop_info, strokes, ticks>>

\* modal applying the tool on every move or tick, stroking or not
modal_move_unguarded(pos, hit, lastKey) ==
    /\ current_mco' = pos
    /\ lastResult' = "RUNNING_MODAL"
    /\ uv' = stroke_apply(uv, pos, hit, lastKey)
    /\ lastCall' = "apply"
    /\ lastHit' = hit
    /\ ticks' = ticks
    /\ UNCHANGED <<stroking, initial_mco, loop_info, lastButton, strokes>>

\* lines 362-367 (MOUSEMOVE and TIMER alike), with __stroke_apply (lines 184-319)
modal_move(pos, hit, lastKey) ==
    /\ current_mco' = pos
    /\ lastResult' = "RUNNING_MODAL"
    /\ IF stroking
       THEN /\ uv' = stroke_apply(uv, pos, hit, lastKey)
            /\ lastCall' = "apply"
            /\ lastHit' = IF sc.muv_uvsculpt_tools = "PINCH" THEN hit ELSE NoHit
            /\ ticks' = IF sc.muv_uvsculpt_tools = "GRAB" THEN ticks ELSE ticks + 1
       ELSE /\ lastCall' = "none"
            /\ lastHit' = NoHit
            /\ UNCHANGED <<uv, ticks>>
    /\ UNCHANGED <<stroking, initial_mco, loop_info, lastButton, strokes>>

modal(ev, pos, hit, lastKey) ==
    /\ modal_handler
    /\ lastOp' = "modal"
    /\ IF ~is_running
       THEN \* line 342: handle_remove() lacks the context argument of
            \* handle_remove(cls, context): TypeError, nothing is assigned
            \* and the event is not looked at
            /\ lastResult' = "TypeError"
            /\ lastEvent' = "none"
            /\ lastCall' = "none"
            /\ UNCHANGED <<strokeVars, uv, lastHit, lastButton, strokes, ticks>>
       ELSE /\ lastEvent' = ev
            /\ IF ~InView(pos) THEN modal_out_of_view(pos)
               ELSE IF ev = "PRESS" THEN modal_press(pos)
               ELSE IF ev = "RELEASE" THEN modal_release(pos)
               ELSE modal_move(pos, hit, lastKey)
    /\ UNCHANGED <<classVars, sc, select, gs, otherVars>>

(***************************************************************************)
(* The events the exploration delivers: a press that starts a stroke comes *)
(* at one of PressPos and at most MaxStrokes times; Pinch and Relax tick   *)
(* at most MaxTicks times.                                                 *)
(***************************************************************************)
Applies(ev, pos) ==
    is_running /\ InView(pos) /\ stroking /\ ev \in {"MOUSEMOVE", "TIMER"}

Delivered(ev, pos) ==
    /\ (is_running /\ InView(pos) /\ ev = "PRESS" /\ ~stroking)
            => (pos \in PressPos /\ strokes < MaxStrokes)
    /\ (Applies(ev, pos) /\ sc.muv_uvsculpt_tools # "GRAB") => ticks < MaxTicks

HitChoices(ev, pos) ==
    IF Applies(ev, pos) /\ sc.muv_uvsculpt_tools = "PINCH" THEN RayCasts ELSE {NoHit}

KeyChoices(ev, pos) ==
    IF Applies(ev, pos) /\ sc.muv_uvsculpt_tools = "RELAX" THEN Verts ELSE {"A"}

Event ==
    \E ev \in EventTypes, pos \in EventPos :
        /\ Delivered(ev, pos)
        /\ \E hit \in HitChoices(ev, pos), lastKey \in KeyChoices(ev, pos) :
              modal(ev, pos, hit, lastKey)

Next ==
    \/ handle_add
    \/ execute
    \/ Enable
    \/ Disable
    \/ Event

Spec == Init /\ [][Next]_vars


(***************************************************************************)
(* The falloff specification: __get_strength called on drawn arguments.    *)
(* A run draws a radius and a factor with the first call; gs holds the     *)
(* last call and the one before it.                                        *)
(***************************************************************************)
FalloffDists == {Rat(k, 2) : k \in -1 .. 2 * MaxDist}
FalloffRadii == {RInt(1), RInt(5), RInt(10)}
FalloffFactors == {RZero, Rat(1, 2), ROne}

FalloffCall(p, len_, factor) ==
    [p |-> p, len_ |-> len_, factor |-> factor, result |-> get_strength(p, len_, factor)]

FalloffFirst ==
    /\ gs.calls = 0
    /\ \E p \in FalloffDists, len_ \in FalloffRadii, factor \in FalloffFactors :
          gs' = [cur |-> FalloffCall(p, len_, factor),
                 prev |-> FalloffCall(p, len_, factor), calls |-> 1]
    /\ UNCHANGED <<classVars, strokeVars, uv, sc, select, lastOp, lastResult,
                   lastEvent, histVars, otherVars>>

FalloffNext ==
    /\ gs.calls >= 1
    /\ \E p \in FalloffDists :
          gs' = [cur |-> FalloffCall(p, gs.cur.len_, gs.cur.factor),
                 prev |-> gs.cur, calls |-> 2]
    /\ UNCHANGED <<classVars, strokeVars, uv, sc, select, lastOp, lastResult,
                   lastEvent, histVars, otherVars>>

NextFalloff == FalloffFirst \/ FalloffNext

\* the stroke state is not used: one scene, left as constructed
InitFalloff == InitIn({Scene("GRAB", RInt(10), ROne, FALSE, "HC", {1})})

SpecFalloff == InitFalloff /\ [][NextFalloff]_vars

(***************************************************************************)
(* The relax specification: the same operators on Relax scenes (strength   *)
(* factor 0 with both methods, Laplacian at factor 1), starting from the   *)
(* UV layer of the other runs or from one whose loops all have the same    *)
(* UV, with up to MaxRelaxTicks ticks.                                     *)
(***************************************************************************)
RelaxScenes ==
    {Scene("RELAX", RInt(10), RZero, FALSE, "HC", {1, 2}),
     Scene("RELAX", RInt(10), RZero, FALSE, "LAPLACIAN", {1, 2}),
     Scene("RELAX", RInt(10), ROne, FALSE, "LAPLACIAN", {1, 2}),
     Scene("RELAX", RInt(5), ROne, FALSE, "LAPLACIAN", {1})}

ConstUV == [l \in LoopSet |-> Vec(Rat(1, 2), Rat(1, 2))]
RelaxFields == {InitialUV, ConstUV}

DeliveredRelax(ev, pos) ==
    /\ (is_running /\ InView(pos) /\ ev = "PRESS" /\ ~stroking)
            => (pos \in PressPos /\ strokes < MaxRelaxStrokes)
    /\ Applies(ev, pos) => ticks < MaxRelaxTicks

EventRelax ==
    \E ev \in EventTypes, pos \in EventPos :
        /\ DeliveredRelax(ev, pos)
        /\ \E hit \in HitChoices(ev, pos), lastKey \in KeyChoices(ev, pos) :
              modal(ev, pos, hit, lastKey)

NextRelax ==
    \/ handle_add
    \/ execute
    \/ Enable
    \/ Disable
    \/ EventRelax

InitRelax == InitWith(RelaxScenes, RelaxFields)

SpecRelax == InitRelax /\ [][NextRelax]_vars

(***************************************************************************)
(* The degenerate-radius specification: the same operators on scenes whose *)
(* brush radius is zero or negative, one of each per tool.                 *)
(***************************************************************************)
DegenerateScenes ==
    {Scene("GRAB", RInt(0), ROne, FALSE, "HC", {1, 2}),
     Scene("GRAB", RInt(-5), ROne, FALSE, "HC", {1, 2}),
     Scene("PINCH", RInt(0), ROne, FALSE, "HC", {1, 2}),
     Scene("PINCH", RInt(-5), Rat(1, 2), TRUE, "HC", {1, 2}),
     Scene("RELAX", RInt(0), ROne, FALSE, "HC", {1, 2}),
     Scene("RELAX", RInt(-5), ROne, FALSE, "LAPLACIAN", {1, 2})}

InitDegenerate == InitIn(DegenerateScenes)

SpecDegenerate == InitDegenerate /\ [][Next]_vars

(***************************************************************************)
(* Flip and rotate of a captured per-face list (copy_paste_uv.py, lines    *)
(* 584-599; the same statements at 294-309).                               *)
(***************************************************************************)
\* list.reverse()
reverse(s) == [k \in DOMAIN s |-> s[Len(s) + 1 - k]]

\* a rotation that moves the first element to the end
rotate_step_left(s) == SubSeq(s, 2, Len(s)) \o <<s[1]>>

\* x = list.pop(); list.insert(0, x)
rotate_step(s) == <<s[Len(s)]>> \o SubSeq(s, 1, Len(s) - 1)

\* for _ in range(n): one step each
RECURSIVE rotate(_, _)
rotate(s, n) == IF n = 0 THEN s ELSE rotate(rotate_step(s), n - 1)

\* the list written onto the destination loops
flip_rotate(s, flip, n) == rotate(IF flip THEN reverse(s) ELSE s, n)

(***************************************************************************)
(* The flip/rotate specification: flip_rotate called on drawn lists; a     *)
(* later call works on the list the call before it gave (the pasted face   *)
(* copied and pasted again).  fr.history lists the <<flip, n>> of the      *)
(* calls.                                                                  *)
(***************************************************************************)
CapturedLists == {<<1, 2, 3>>, <<1, 2, 3, 4>>, <<7, 7, 8>>, <<5, 6, 5, 6>>}

FlipRotateFirst ==
    /\ fr.calls = 0
    /\ \E src \in CapturedLists, flip \in BOOLEAN, n \in 0 .. MaxRotate :
          fr' = [src |-> src, flip |-> flip, rotate |-> n,
                 out |-> flip_rotate(src, flip, n), calls |-> 1,
                 history |-> << <<flip, n>> >>]
    /\ UNCHANGED <<classVars, strokeVars, uv, sc, select, lastOp, lastResult,
                   lastEvent, histVars, gs, pin_uv, seam, lastReport, props,
                   objects, lastPaste, copies, pastes>>

FlipRotateNext ==
    /\ fr.calls >= 1
    /\ fr.calls < MaxFlipRotateCalls
    /\ \E flip \in BOOLEAN, n \in 0 .. MaxRotate :
          fr' = [src |-> fr.src, flip |-> flip, rotate |-> n,
                 out |-> flip_rotate(fr.out, flip, n), calls |-> fr.calls + 1,
                 history |-> Append(fr.history, <<flip, n>>)]
    /\ UNCHANGED <<classVars, strokeVars, uv, sc, select, lastOp, lastResult,
                   lastEvent, histVars, gs, pin_uv, seam, lastReport, props,
                   objects, lastPaste, copies, pastes>>

NextFlipRotate == FlipRotateFirst \/ FlipRotateNext

SpecFlipRotate == InitFalloff /\ [][NextFlipRotate]_vars

(***************************************************************************)
(* The copy/paste operators (copy_paste_uv.py, copy_paste_uv_object.py),   *)
(* all with uv_map "__default".  A mesh is a record uv, pin_uv (per face   *)
(* and loop) and seam (per edge); the selection is an input of the call.   *)
(***************************************************************************)
\* what the copy/paste operators never assign
sculptVars == <<classVars, strokeVars, uv, sc, select, lastEvent, histVars, gs,
                pin_uv, seam, fr>>

\* the objects the face and selection-sequence operators find in edit mode
EditObjects == {"P", "N"}

\* bm.select_history, its selected faces: sequences of distinct faces
Histories(o) ==
    {h \in UNION {[1 .. n -> FacesOf(o)] : n \in 0 .. MaxHistory} :
        \A a, b \in DOMAIN h : a # b => h[a] # h[b]}

\* "for face in bm.faces: if face.select": the faces of S in index order
RECURSIVE InOrder(_)
InOrder(S) ==
    IF S = {} THEN <<>>
    ELSE LET f == CHOOSE x \in S : \A y \in S : x <= y
         IN  <<f>> \o InOrder(S \ {f})

\* [l.edge.seam for l in face.loops]
FaceSeams(m, o, f) == [i \in DOMAIN MeshFaces[o][f] |-> m.seam[LoopEdge(o, f, i)]]

\* src_uvs, src_pin_uvs, src_seams appended face by face
Capture(m, o, faces) ==
    IF faces = <<>> THEN EmptyClip
    ELSE [src_uvs |-> [k \in DOMAIN faces |-> m.uv[faces[k]]],
          src_pin_uvs |-> [k \in DOMAIN faces |-> m.pin_uv[faces[k]]],
          src_seams |-> [k \in DOMAIN faces |-> FaceSeams(m, o, faces[k])]]

\* face_info of MUV_CPUVCopyUV: one "info" per selected face
FaceInfo(m, o, faces) ==
    IF faces = <<>> THEN <<>>
    ELSE [k \in DOMAIN faces |->
             [src_uvs |-> m.uv[faces[k]], src_pin_uvs |-> m.pin_uv[faces[k]],
              src_seams |-> FaceSeams(m, o, faces[k])]]

\* "l.edge.seam = ss" loop by loop, from loop i on
RECURSIVE WriteSeams(_, _, _, _, _)
WriteSeams(sm, o, f, ss, i) ==
    IF i > Len(ss) THEN sm
    ELSE WriteSeams([sm EXCEPT ![LoopEdge(o, f, i)] = ss[i]], o, f, ss, i + 1)

\* flip, rotate and the zip loop that writes one destination face
PasteFace(m, o, f, suv, spuv, ss, call) ==
    LET suvs_fr == flip_rotate(suv, call.flip, call.rotate)
        spuvs_fr == flip_rotate(spuv, call.flip, call.rotate)
        ss_fr == flip_rotate(ss, call.flip, call.rotate)
    IN  [uv |-> [m.uv EXCEPT ![f] = suvs_fr],
         pin_uv |-> [m.pin_uv EXCEPT ![f] = spuvs_fr],
         seam |-> IF call.copy_seams THEN WriteSeams(m.seam, o, f, ss_fr, 1)
                  ELSE m.seam]

\* a pairing that is one source face ahead with N_M
SrcIndexShifted(strategy, i, S) == IF strategy = "N_N" THEN i ELSE (i % S) + 1

\* the source face of destination position i (from 1): src[i] with N_N,
\* src[i % len(src)] with N_M
SrcIndex(strategy, i, S) == IF strategy = "N_N" THEN i ELSE ((i - 1) % S) + 1

\* the paste loop from destination position i on; ok is FALSE when it left
\* with "Some faces are different size"
RECURSIVE PasteFaces(_, _, _, _, _, _)
PasteFaces(m, o, clip, dest, call, i) ==
    IF i > Len(dest) THEN [mesh |-> m, ok |-> TRUE]
    ELSE LET s == SrcIndex(call.strategy, i, Len(clip.src_uvs))
         IN  IF Len(clip.src_uvs[s]) # Len(m.uv[dest[i]])
             THEN [mesh |-> m, ok |-> FALSE]
             ELSE PasteFaces(PasteFace(m, o, dest[i], clip.src_uvs[s],
                                       clip.src_pin_uvs[s], clip.src_seams[s], call),
                             o, clip, dest, call, i + 1)

\* self.report({level}, msg)
Report(level, msg) == [level |-> level, msg |-> msg]

\* what an operator call leaves behind
Outcome(objs, result, level, msg) ==
    [objects |-> objs, result |-> result, report |-> Report(level, msg)]

\* the operator properties drawn for a paste: <<flip_copied_uv,
\* rotate_copied_uv, copy_seams>> (defaults first)
PasteOptions ==
    {<<FALSE, 0, TRUE>>, <<TRUE, 0, FALSE>>, <<FALSE, 1, TRUE>>, <<TRUE, 5, FALSE>>}

PasteCall(name, o, dest, strategy, opt) ==
    [op |-> name, obj |-> o, dest |-> dest, strategy |-> strategy,
     flip |-> opt[1], rotate |-> opt[2], copy_seams |-> opt[3]]

\* a copy call: the object, the faces found selected, and the clipboard
\* the call found
CopyCall(name, o, faces, old) == [op |-> name, obj |-> o, dest |-> faces, old |-> old]

\* MUV_CPUVCopyUV.execute.  The INFO report of line 132 reads
\* props.src_uvs, an attribute of a class this file does not define: the
\* call ends there with FINISHED or with the exception of that read.
CopyUV(o, sel, after) ==
    /\ LET face_info == FaceInfo(objects[o], o, InOrder(sel))
       IN  IF ~HasUVLayer(o)
           THEN /\ props' = props
                /\ lastResult' = "CANCELLED"
                /\ lastReport' = Report("WARNING", "Object must have more than one UV map")
           ELSE IF face_info = <<>>
           THEN /\ props' = [props EXCEPT !.cpuv.src_info = <<>>]
                /\ lastResult' = "CANCELLED"
                /\ lastReport' = Report("WARNING", "No faces are selected")
           ELSE /\ props' = [props EXCEPT !.cpuv.src_info = face_info]
                /\ lastResult' = after
                /\ lastReport' = IF after = "FINISHED"
                                 THEN Report("INFO", "face(s) are selected")
                                 ELSE Report("INFO", "Copy UV coordinate")
    /\ lastPaste' = CopyCall("MUV_CPUVCopyUV", o, InOrder(sel), props.cpuv.src_info)
    /\ lastOp' = "MUV_CPUVCopyUV"
    /\ copies' = copies + 1
    /\ UNCHANGED <<sculptVars, objects, pastes>>

CopyUV_execute ==
    /\ copies < MaxCopies
    /\ \E o \in EditObjects, after \in {"FINISHED", "AttributeError"} :
       \E sel \in SUBSET FacesOf(o) : CopyUV(o, sel, after)

\* MUV_CPUVPasteUV.execute.  Line 259 reads uv_layer, a name the function
\* never assigns (it fills uv_layers): NameError at the first selected face,
\* before the face-count check, the shape check and every write.
PasteUV(o, sel, strategy, opt) ==
    /\ lastPaste' = PasteCall("MUV_CPUVPasteUV", o, InOrder(sel), strategy, opt)
    /\ IF props.cpuv.src_info = <<>>
       THEN /\ lastResult' = "CANCELLED"
            /\ lastReport' = Report("WARNING", "Need copy UV at first")
       ELSE IF ~HasUVLayer(o)
       THEN /\ lastResult' = "CANCELLED"
            /\ lastReport' = Report("WARNING", "Object must have more than one UV map")
       ELSE IF sel # {}
       THEN /\ lastResult' = "NameError"
            /\ lastReport' = Report("INFO", "Paste UV coordinate")
       ELSE /\ lastResult' = "CANCELLED"
            /\ lastReport' = Report("WARNING", "No faces are selected")
    /\ lastOp' = "MUV_CPUVPasteUV"
    /\ pastes' = pastes + 1
    /\ UNCHANGED <<sculptVars, objects, props, copies>>

PasteUV_execute ==
    /\ pastes < MaxPastes
    /\ \E o \in EditObjects, strategy \in {"N_N", "N_M"}, opt \in PasteOptions :
       \E sel \in SUBSET FacesOf(o) : PasteUV(o, sel, strategy, opt)

\* a selection-sequence copy that looks for selected faces before it
\* clears the clipboard
SelSeqCopyUVKeeps(o, hist) ==
    /\ IF ~HasUVLayer(o)
       THEN /\ props' = props
            /\ lastResult' = "CANCELLED"
            /\ lastReport' = Report("WARNING", "Object must have more than one UV map")
       ELSE IF hist = <<>>
       THEN /\ props' = props
            /\ lastResult' = "CANCELLED"
            /\ lastReport' = Report("WARNING", "No faces are selected")
       ELSE /\ props' = [props EXCEPT !.cpuv_selseq = Capture(objects[o], o, hist)]
            /\ lastResult' = "FINISHED"
            /\ lastReport' = Report("INFO", "face(s) are selected")
    /\ lastPaste' = CopyCall("MUV_CPUVSelSeqCopyUV", o, hist, props.cpuv_selseq)
    /\ lastOp' = "MUV_CPUVSelSeqCopyUV"
    /\ copies' = copies + 1
    /\ UNCHANGED <<sculptVars, objects, pastes>>

\* MUV_CPUVSelSeqCopyUV.execute
SelSeqCopyUV(o, hist) ==
    /\ IF ~HasUVLayer(o)
       THEN /\ props' = props
            /\ lastResult' = "CANCELLED"
            /\ lastReport' = Report("WARNING", "Object must have more than one UV map")
       ELSE /\ props' = [props EXCEPT !.cpuv_selseq = Capture(objects[o], o, hist)]
            /\ IF hist = <<>>
               THEN /\ lastResult' = "CANCELLED"
                    /\ lastReport' = Report("WARNING", "No faces are selected")
               ELSE /\ lastResult' = "FINISHED"
                    /\ lastReport' = Report("INFO", "face(s) are selected")
    /\ lastPaste' = CopyCall("MUV_CPUVSelSeqCopyUV", o, hist, props.cpuv_selseq)
    /\ lastOp' = "MUV_CPUVSelSeqCopyUV"
    /\ copies' = copies + 1
    /\ UNCHANGED <<sculptVars, objects, pastes>>

SelSeqCopyUV_execute ==
    /\ copies < MaxCopies
    /\ \E o \in EditObjects :
       \E hist \in Histories(o) : SelSeqCopyUV(o, hist)

\* the body of MUV_CPUVSelSeqPasteUV.execute on object o
SelSeqPaste(objs, clip, o, dest, call) ==
    IF clip.src_uvs = <<>> \/ clip.src_pin_uvs = <<>>
    THEN Outcome(objs, "CANCELLED", "WARNING", "Need copy UV at first")
    ELSE IF ~HasUVLayer(o)
    THEN Outcome(objs, "CANCELLED", "WARNING", "Object must have more than one UV map")
    ELSE IF dest = <<>>
    THEN Outcome(objs, "CANCELLED", "WARNING", "No faces are selected")
    ELSE IF call.strategy = "N_N" /\ Len(clip.src_uvs) # Len(dest)
    THEN Outcome(objs, "CANCELLED", "WARNING",
                 "Number of selected faces is different from copied faces")
    ELSE LET r == PasteFaces(objs[o], o, clip, dest, call, 1)
             written == [objs EXCEPT ![o] = r.mesh]
         IN  IF r.ok THEN Outcome(written, "FINISHED", "INFO", "face(s) are copied")
             ELSE Outcome(written, "CANCELLED", "WARNING", "Some faces are different size")

\* MUV_CPUVSelSeqPasteUV.execute
SelSeqPasteUV(o, hist, strategy, opt) ==
    /\ LET call == PasteCall("MUV_CPUVSelSeqPasteUV", o, hist, strategy, opt)
           out == SelSeqPaste(objects, props.cpuv_selseq, o, hist, call)
       IN  /\ lastPaste' = call
           /\ objects' = out.objects
           /\ lastResult' = out.result
           /\ lastReport' = out.report
    /\ lastOp' = "MUV_CPUVSelSeqPasteUV"
    /\ pastes' = pastes + 1
    /\ UNCHANGED <<sculptVars, props, copies>>

SelSeqPasteUV_execute ==
    /\ pastes < MaxPastes
    /\ \E o \in EditObjects, strategy \in {"N_N", "N_M"}, opt \in PasteOptions :
       \E hist \in Histories(o) : SelSeqPasteUV(o, hist, strategy, opt)

\* MUV_CPUVObjCopyUV.execute on the active object: every face is copied
ObjCopyUV_execute ==
    /\ copies < MaxCopies
    /\ \E o \in ObjNames :
          /\ IF ~HasUVLayer(o)
             THEN /\ props' = props
                  /\ lastResult' = "CANCELLED"
                  /\ lastReport' = Report("WARNING", "Object must have more than one UV map")
             ELSE /\ props' = [props EXCEPT !.cpuv_obj =
                                  Capture(objects[o], o, InOrder(FacesOf(o)))]
                  /\ lastResult' = "FINISHED"
                  /\ lastReport' = Report("INFO", "UV coordinates are copied")
          /\ lastPaste' = CopyCall("MUV_CPUVObjCopyUV", o, InOrder(FacesOf(o)),
                                   props.cpuv_obj)
    /\ lastOp' = "MUV_CPUVObjCopyUV"
    /\ copies' = copies + 1
    /\ UNCHANGED <<sculptVars, objects, pastes>>

\* "for o in bpy.data.objects" of MUV_CPUVObjPasteUV.execute from object k
\* on; rep is the last report so far
RECURSIVE PasteObjects(_, _, _, _, _, _)
PasteObjects(objs, clip, sel, call, k, rep) ==
    IF k > Len(Objects) THEN [objects |-> objs, result |-> "FINISHED", report |-> rep]
    ELSE LET o == Objects[k]
         IN  IF o \notin sel THEN PasteObjects(objs, clip, sel, call, k + 1, rep)
             ELSE IF ~HasUVLayer(o)
             THEN Outcome(objs, "CANCELLED", "WARNING",
                          "Object must have more than one UV map")
             ELSE IF Len(clip.src_uvs) # Len(objs[o].uv)
             THEN Outcome(objs, "CANCELLED", "WARNING",
                          "Number of faces is different from copied")
             ELSE LET r == PasteFaces(objs[o], o, clip, InOrder(FacesOf(o)), call, 1)
                      written == [objs EXCEPT ![o] = r.mesh]
                  IN  IF ~r.ok
                      THEN Outcome(written, "CANCELLED", "WARNING",
                                   "Some faces are different size")
                      ELSE PasteObjects(written, clip, sel, call, k + 1,
                                        Report("INFO", "UV coordinates are pasted"))

\* MUV_CPUVObjPasteUV.execute on the objects with o.select
ObjPasteUV_execute ==
    /\ pastes < MaxPastes
    /\ \E sel \in SUBSET ObjNames, copy_seams \in BOOLEAN :
          LET clip == props.cpuv_obj
              call == [op |-> "MUV_CPUVObjPasteUV", sel |-> sel, strategy |-> "N_N",
                       flip |-> FALSE, rotate |-> 0, copy_seams |-> copy_seams]
              out == IF clip.src_uvs = <<>> \/ clip.src_pin_uvs = <<>>
                     THEN Outcome(objects, "CANCELLED", "WARNING", "Need copy UV at first")
                     ELSE PasteObjects(objects, clip, sel, call, 1, NoReport)
          IN  /\ lastPaste' = call
              /\ objects' = out.objects
              /\ lastResult' = out.result
              /\ lastReport' = out.report
    /\ lastOp' = "MUV_CPUVObjPasteUV"
    /\ pastes' = pastes + 1
    /\ UNCHANGED <<sculptVars, props, copies>>

NextPaste ==
    \/ CopyUV_execute
    \/ PasteUV_execute
    \/ SelSeqCopyUV_execute
    \/ SelSeqPasteUV_execute
    \/ ObjCopyUV_execute
    \/ ObjPasteUV_execute

\* the brush state is not used: one scene, left as constructed
SpecPaste == InitFalloff /\ [][NextPaste]_vars

(***************************************************************************)
(* The clipboard specification: the face and selection-sequence operators  *)
(* of copy_paste_uv.py with up to MaxClipCopies copies in a run, on a few  *)
(* selections (none, one triangle, two triangles, the quad), with the      *)
(* default paste options and with flip and one rotation.                   *)
(***************************************************************************)
ClipSelections(o) == {{}, {1}, {1, 2}} \cap SUBSET FacesOf(o)
ClipHistories(o) ==
    {h \in {<<>>, <<1>>, <<2, 1>>, <<3>>} : \A k \in DOMAIN h : h[k] \in FacesOf(o)}
DefaultOptions == <<FALSE, 0, TRUE>>
ClipOptions == {DefaultOptions, <<TRUE, 1, FALSE>>}

ClipCopyUV ==
    /\ copies < MaxClipCopies
    /\ \E o \in EditObjects, after \in {"FINISHED", "AttributeError"} :
       \E sel \in ClipSelections(o) : CopyUV(o, sel, after)

ClipPasteUV ==
    /\ pastes < MaxPastes
    /\ \E o \in EditObjects, strategy \in {"N_N", "N_M"}, opt \in ClipOptions :
       \E sel \in ClipSelections(o) : PasteUV(o, sel, strategy, opt)

ClipSelSeqCopyUV ==
    /\ copies < MaxClipCopies
    /\ \E o \in EditObjects :
       \E hist \in ClipHistories(o) : SelSeqCopyUV(o, hist)

ClipSelSeqPasteUV ==
    /\ pastes < MaxPastes
    /\ \E o \in EditObjects, strategy \in {"N_N", "N_M"}, opt \in ClipOptions :
       \E hist \in ClipHistories(o) : SelSeqPasteUV(o, hist, strategy, opt)

NextClipboard ==
    \/ ClipCopyUV
    \/ ClipPasteUV
    \/ ClipSelSeqCopyUV
    \/ ClipSelSeqPasteUV

SpecClipboard == InitFalloff /\ [][NextClipboard]_vars

(***************************************************************************)
(* Properties.                                                             *)
(***************************************************************************)
\* a step of modal that got past the running test, and its event
Handled(ev) == lastOp' = "modal" /\ lastResult' # "TypeError" /\ lastEvent' = ev

\* the viewport bounds as the specification words them
OutsideViewport(p) ==
    p[1] < 0 \/ p[1] > Area.width \/ p[2] < 0 \/ p[2] > Area.height

\* squared distance of loop l's projected vertex to the screen point p, and
\* the distance itself where it is an integer
DistSq(l, p) ==
    LET q == Loc2d[VertOf(l)]
    IN  (q[1] - p[1]) * (q[1] - p[1]) + (q[2] - p[2]) * (q[2] - p[2])
Dist(l, p) == CHOOSE k \in 0 .. DistSq(l, p) : k * k = DistSq(l, p)

\* C1: stroke state machine.  The phase is Stroking exactly when the last
\* button event handled inside the viewport was a press; a press handled in
\* Idle runs Init, which captures the cursor of that press as cursorInitial,
\* and moves to Stroking; a release handled in Stroking runs Exit and moves
\* back to Idle.
C1_StrokeStateMachine ==
    /\ [](stroking <=> lastButton = "PRESS")
    /\ [][(Handled("PRESS") /\ lastResult' = "RUNNING_MODAL" /\ ~stroking)
            => (stroking' /\ lastCall' = "init" /\ initial_mco' = current_mco')]_vars
    /\ [][(Handled("RELEASE") /\ lastResult' = "RUNNING_MODAL" /\ stroking)
            => (~stroking' /\ lastCall' = "exit")]_vars

\* C1 witness: a second stroke has begun at (4,3) after a release
C1_Witness ==
    /\ stroking /\ lastCall = "init" /\ strokes = 2
    /\ initial_mco = <<4, 3>> /\ current_mco = <<4, 3>>

\* C2: Apply runs only in Stroking.  A handled move or timer event calls
\* Apply if and only if the machine is Stroking, no button event calls it,
\* and in Idle a move, timer or release event changes no UV coordinate.
C2_ApplyOnlyWhenStroking ==
    [][(lastOp' = "modal" /\ lastResult' = "RUNNING_MODAL")
        => /\ (lastEvent' \in {"MOUSEMOVE", "TIMER"}
                  => ((lastCall' = "apply") <=> stroking))
           /\ (lastEvent' \in {"PRESS", "RELEASE"} => lastCall' # "apply")
           /\ ((~stroking /\ lastEvent' \in {"MOUSEMOVE", "TIMER", "RELEASE"})
                  => uv' = uv)]_vars

\* C2 witness: a move handled in Idle after a Grab stroke (whose records are
\* still there and would move UVs if applied at this cursor)
C2_Witness ==
    /\ lastOp = "modal" /\ lastEvent = "MOUSEMOVE" /\ lastResult = "RUNNING_MODAL"
    /\ ~stroking /\ lastCall = "none"
    /\ sc.muv_uvsculpt_tools = "GRAB" /\ loop_info # <<>>
    /\ Grab(uv, current_mco) # uv

C4_OutOfViewNothingChanges ==
    [][(lastOp' = "modal" /\ lastResult' # "TypeError" /\ OutsideViewport(current_mco'))
        => UNCHANGED <<stroking, initial_mco, current_mco, loop_info, uv>>]_vars

\* C4 amended: an event outside the viewport, delivered while the tool runs,
\* is passed through without being applied: phase, cursorInitial, influence
\* set and every UV are unchanged; the current cursor position is set to the
\* event's position.
C4_OutOfViewPassThrough ==
    [][(lastOp' = "modal" /\ lastResult' # "TypeError" /\ OutsideViewport(current_mco'))
        => /\ lastResult' = "PASS_THROUGH"
           /\ lastCall' = "none"
           /\ UNCHANGED <<stroking, initial_mco, loop_info, uv>>]_vars

\* C4 witness: a release passed through outside the viewport during a stroke
C4_Witness ==
    /\ lastOp = "modal" /\ lastResult = "PASS_THROUGH" /\ lastEvent = "RELEASE"
    /\ stroking /\ OutsideViewport(current_mco) /\ loop_info # <<>>

\* C5 as claimed: once the tool is toggled off during a stroke (the last
\* button event handled was a press), the next event forces the machine to
\* Idle: modal ends the operator (FINISHED), running no Exit.
C5_ToggleOffForcesIdle ==
    (lastOp = "modal" /\ ~is_running /\ lastButton = "PRESS") => lastResult = "FINISHED"

\* C6 as claimed: an enable() that is not cancelled completes normally and
\* leaves the tool running; a disable() that is not cancelled completes
\* normally and leaves it not running; a cancelled call is one made in the
\* state it asks for.
C6_EnableDisableProtocol ==
    /\ (lastOp = "enable" /\ lastResult # "CANCELLED")
          => (is_running /\ lastResult = "FINISHED")
    /\ (lastOp = "disable" /\ lastResult # "CANCELLED")
          => (~is_running /\ lastResult = "FINISHED")
    /\ (lastOp = "enable" /\ lastResult = "CANCELLED") => is_running
    /\ (lastOp = "disable" /\ lastResult = "CANCELLED") => ~is_running


\* C7: falloff.  For radius r > 0 and factor f >= 0: strength(0, r, f) = f,
\* strength(r, r, f) = 0, strength(d, r, f) = 0 for d > r,
\* strength(d, r, f) = f * (r - d) / r for 0 <= d <= r, 0 <= strength <= f,
\* and strength does not increase with d over [0, r].
C7_Falloff ==
    LET c == gs.cur
        q == gs.prev
    IN  gs.calls >= 1 =>
          /\ (c.p = RZero => c.result = c.factor)
          /\ (c.p = c.len_ => c.result = RZero)
          /\ (RLt(c.len_, c.p) => c.result = RZero)
          /\ ((RLe(RZero, c.p) /\ RLe(c.p, c.len_))
                => RMul(c.result, c.len_) = RMul(c.factor, RSub(c.len_, c.p)))
          /\ RLe(RZero, c.result) /\ RLe(c.result, c.factor)
          /\ ((gs.calls = 2 /\ RLe(RZero, q.p) /\ RLe(q.p, c.p) /\ RLe(c.p, c.len_))
                => RLe(c.result, q.result))

\* C7 witness: two distances strictly inside the brush, the farther one weaker
C7_Witness ==
    /\ gs.calls = 2
    /\ RLt(RZero, gs.prev.p) /\ RLt(gs.prev.p, gs.cur.p) /\ RLt(gs.cur.p, gs.cur.len_)
    /\ RLt(RZero, gs.cur.result) /\ RLt(gs.cur.result, gs.prev.result)
    /\ RLt(gs.prev.result, gs.cur.factor)

\* C8: influence selection at Init.  Right after Init the influence set holds
\* exactly one record for each loop of a selected face whose projected
\* distance d to cursorInitial is strictly less than the radius, and none
\* for any other loop; each record stores the loop's UV at the press and
\* strength = factor * (radius - d) / radius.
C8_InfluenceSelection ==
    lastCall = "init" =>
        LET r == sc.muv_uvsculpt_radius[1]
        IN  /\ initial_mco = current_mco
            /\ \A l \in LoopSet :
                  Cardinality({k \in DOMAIN loop_info : InfoLoop(loop_info[k]) = l})
                    = IF l[1] \in select /\ DistSq(l, initial_mco) < r * r THEN 1 ELSE 0
            /\ \A k \in DOMAIN loop_info :
                  LET l == InfoLoop(loop_info[k])
                  IN  /\ loop_info[k].initial_uv = uv[l]
                      /\ RMul(loop_info[k].strength, RInt(r))
                           = RMul(sc.muv_uvsculpt_strength,
                                  RInt(r - Dist(l, initial_mco)))

\* C8 witness: the second Init of a run, on moved UVs: a loop of a selected
\* face exactly at the radius is left out, a loop of an unselected face
\* inside the radius is left out, a loop is recorded
C8_Witness ==
    /\ lastCall = "init" /\ strokes = 2 /\ uv # InitialUV /\ loop_info # <<>>
    /\ \E l \in LoopSet :
          /\ l[1] \in select
          /\ DistSq(l, initial_mco) = sc.muv_uvsculpt_radius[1] * sc.muv_uvsculpt_radius[1]
    /\ \E l \in LoopSet :
          /\ l[1] \notin select
          /\ DistSq(l, initial_mco) < sc.muv_uvsculpt_radius[1] * sc.muv_uvsculpt_radius[1]

\* C9: Grab is not cumulative.  After Init, after every move or timer tick
\* and after the release of a Grab stroke, the UV of every influenced loop is
\* record.initialUV + (cursor - cursorInitial) * record.strength / 100 for
\* the cursor of that event, whatever the cursors before it; with the cursor
\* at cursorInitial it is the captured UV; and with radius 10, factor 1, a
\* loop at distance 5 whose UV was (0.2, 0.3), a drag from (0,0) to (10,0)
\* gives (0.25, 0.3).
C9_GrabNotCumulative ==
    (sc.muv_uvsculpt_tools = "GRAB" /\ lastOp = "modal"
        /\ lastCall \in {"init", "apply", "exit"}) =>
        /\ \A k \in DOMAIN loop_info :
              LET info == loop_info[k]
                  l == InfoLoop(info)
              IN  /\ VScale(VSub(uv[l], info.initial_uv), RInt(100))
                       = VScale(VSub(VInt(current_mco), VInt(initial_mco)), info.strength)
                  /\ current_mco = initial_mco => uv[l] = info.initial_uv
        /\ (/\ sc.muv_uvsculpt_radius = RInt(10) /\ sc.muv_uvsculpt_strength = ROne
            /\ initial_mco = <<0, 0>> /\ current_mco = <<10, 0>>
            /\ \E k \in DOMAIN loop_info :
                  /\ InfoLoop(loop_info[k]) = <<1, 3>>
                  /\ loop_info[k].initial_uv = Vec(Rat(2, 10), Rat(3, 10)))
              => uv[<<1, 3>>] = Vec(Rat(25, 100), Rat(3, 10))

\* C9 witness: the scenario's stroke released at (10,0), the loop at
\* distance 5 (strength 0.5) moved from (0.2, 0.3)
C9_Witness ==
    /\ sc.muv_uvsculpt_tools = "GRAB" /\ lastOp = "modal" /\ lastCall = "exit"
    /\ sc.muv_uvsculpt_radius = RInt(10) /\ sc.muv_uvsculpt_strength = ROne
    /\ initial_mco = <<0, 0>> /\ current_mco = <<10, 0>>
    /\ Dist(<<1, 3>>, initial_mco) = 5
    /\ \E k \in DOMAIN loop_info :
          /\ InfoLoop(loop_info[k]) = <<1, 3>>
          /\ loop_info[k].initial_uv = Vec(Rat(2, 10), Rat(3, 10))
          /\ loop_info[k].strength = Rat(1, 2)
    /\ uv[<<1, 3>>] # InitialUV[<<1, 3>>]

\* C10: a Pinch tick whose ray cast hits no face changes no UV coordinate of
\* the mesh and raises no error.
C10_PinchMissNoOp ==
    [][(lastOp' = "modal" /\ lastCall' = "apply" /\ sc.muv_uvsculpt_tools = "PINCH"
          /\ lastHit' = NoHit)
        => (uv' = uv /\ lastResult' = "RUNNING_MODAL")]_vars

\* C10 witness: a Pinch tick missed while loops were under the brush (a hit
\* at this tick would have moved them)
C10_Witness ==
    /\ lastOp = "modal" /\ lastCall = "apply" /\ sc.muv_uvsculpt_tools = "PINCH"
    /\ lastHit = NoHit /\ stroking
    /\ \E hit \in RayCasts : Pinch(uv, hit) # uv

\* the falloff of the loop l under a brush at the screen point p, as the
\* specification words it: factor * (radius - d) / radius
LinearFalloff(l, p) ==
    RDiv(RMul(sc.muv_uvsculpt_strength,
              RInt(sc.muv_uvsculpt_radius[1] - Dist(l, p))),
         sc.muv_uvsculpt_radius)

\* a loop of a selected face strictly inside the brush placed at p
UnderBrush(l, p) ==
    /\ l[1] \in select
    /\ DistSq(l, p) < sc.muv_uvsculpt_radius[1] * sc.muv_uvsculpt_radius[1]

\* C11: Pinch update.  On a Pinch tick with a ray hit the target UV is
\* computed once from the pre-tick UVs of the hit face, and every influenced
\* loop is set to currentUV + (targetUV - currentUV) * strength / 10, or,
\* with the invert option, currentUV + (currentUV - targetUV) * strength / 10;
\* a loop outside the influence set is not written.
C11_PinchUpdate ==
    [][(lastOp' = "modal" /\ lastCall' = "apply" /\ sc.muv_uvsculpt_tools = "PINCH"
          /\ lastHit' # NoHit)
        => LET targetUV == barycentric_transform(lastHit', uv)
           IN  \A l \in LoopSet :
                 IF UnderBrush(l, initial_mco)
                 THEN LET strength == LinearFalloff(l, initial_mco)
                          delta == IF sc.muv_uvsculpt_pinch_invert
                                   THEN VScale(VSub(uv[l], targetUV), strength)
                                   ELSE VScale(VSub(targetUV, uv[l]), strength)
                      IN  uv'[l] = VAdd(uv[l], VDiv(delta, RInt(10)))
                 ELSE uv'[l] = uv[l]]_vars

\* C11 witness: an inverted Pinch tick with a hit has pushed a loop under the
\* brush away from the target, and a loop of a selected face outside the
\* brush is where it was
C11_Witness ==
    /\ lastOp = "modal" /\ lastCall = "apply" /\ sc.muv_uvsculpt_tools = "PINCH"
    /\ lastHit # NoHit /\ sc.muv_uvsculpt_pinch_invert
    /\ \E l \in LoopSet : UnderBrush(l, initial_mco) /\ uv[l] # InitialUV[l]
    /\ \E l \in LoopSet :
          l[1] \in select /\ ~UnderBrush(l, initial_mco) /\ uv[l] = InitialUV[l]

\* a step of modal that ran a Relax tick
RelaxTick ==
    lastOp' = "modal" /\ lastCall' = "apply" /\ sc.muv_uvsculpt_tools = "RELAX"

\* C12 as claimed: Relax two-pass ordering.  Pass 1 and pass 2 are computed
\* for the whole mesh from the pre-tick UVs before any UV is written, so the
\* UVs a Relax tick writes are a function of the pre-tick UV field only:
\* whichever vertex the loops over the vertices visit last, the tick gives
\* the same UV field.
C12_RelaxOrderIndependent ==
    [][RelaxTick => \A k \in Verts : uv' = Relax(uv, k)]_vars

\* C13 as claimed: the HC formula uses the per-vertex neighbor count.  Every
\* loop written by an HC Relax tick gets
\* (1 - strength) * currentUV + strength * (meanUV - t) with
\* t = 0.5 * (bias + biasSum / neighborCount), where meanUV, bias, biasSum
\* and neighborCount (twice the number of incident loops) are those of the
\* loop's own vertex.
C13_RelaxHCPerVertexCount ==
    [][(RelaxTick /\ sc.muv_uvsculpt_relax_method = "HC")
        => LET db == vert_db(uv)
           IN  \A l \in LoopSet :
                 UnderBrush(l, initial_mco) =>
                   LET v == VertOf(l)
                       strength == LinearFalloff(l, initial_mco)
                       neighborCount == 2 * Cardinality({m \in LoopSet : VertOf(m) = v})
                       t == VScale(VAdd(db[v].uv_b,
                                        VDiv(db[v].uv_sum_b, RInt(neighborCount))),
                                   Rat(1, 2))
                   IN  uv'[l] = VAdd(VScale(uv[l], RSub(ROne, strength)),
                                     VScale(VSub(db[v].uv_p, t), strength))]_vars

\* C14: Relax at strength 0 is the identity.  When the strength factor is 0
\* a Relax tick, Laplacian or HC, leaves every UV coordinate of the mesh
\* unchanged, and so does any number of them.
C14_RelaxZeroStrengthIdentity ==
    [][(RelaxTick /\ sc.muv_uvsculpt_strength = RZero) => uv' = uv]_vars

\* C14 witness: MaxRelaxTicks HC ticks at factor 0 with loops under the
\* brush whose UV is not the mean of their neighbors
C14_Witness ==
    /\ lastOp = "modal" /\ lastCall = "apply" /\ sc.muv_uvsculpt_tools = "RELAX"
    /\ sc.muv_uvsculpt_strength = RZero /\ sc.muv_uvsculpt_relax_method = "HC"
    /\ ticks = MaxRelaxTicks /\ uv = InitialUV
    /\ \E l \in LoopSet :
          UnderBrush(l, initial_mco) /\ uv[l] # uv_p(VertOf(l), uv)

\* every coordinate of the UV x lies between two coordinates of the field
InsideBox(x, field) ==
    \A c \in 1 .. 2 :
        \E m, n \in LoopSet : RLe(field[m][c], x[c]) /\ RLe(x[c], field[n][c])

\* the width (c = 1) or height (c = 2) of the bounding box of the field
Spread(field, c) ==
    LET hi == CHOOSE m \in LoopSet : \A n \in LoopSet : RLe(field[n][c], field[m][c])
        lo == CHOOSE m \in LoopSet : \A n \in LoopSet : RLe(field[m][c], field[n][c])
    IN  RSub(field[hi][c], field[lo][c])

C18_SculptFrame ==
    /\ [][lastOp' = "modal"
            => /\ \A l \in LoopSet : uv'[l] # uv[l] => UnderBrush(l, initial_mco)
               /\ pin_uv' = pin_uv
               /\ seam' = seam]_vars
    /\ [](\A l \in LoopSet : l[1] \notin select => uv[l] = InitialUV[l])
    /\ [](pin_uv = InitialPin /\ seam = InitialSeam)

\* C18 witness: a stroke has ended having moved a loop, while a loop of an
\* unselected face inside the brush and a loop of a selected face outside it
\* are where they were
C18_Witness ==
    /\ lastOp = "modal" /\ lastCall = "exit"
    /\ \E l \in LoopSet : UnderBrush(l, initial_mco) /\ uv[l] # InitialUV[l]
    /\ \E l \in LoopSet :
          /\ l[1] \notin select
          /\ DistSq(l, initial_mco) < sc.muv_uvsculpt_radius[1] * sc.muv_uvsculpt_radius[1]
          /\ uv[l] = InitialUV[l]
    /\ \E l \in LoopSet :
          l[1] \in select /\ ~UnderBrush(l, initial_mco) /\ uv[l] = InitialUV[l]

\* a step in which modal ran Init, Apply or Exit
StrokeEvent == lastOp' = "modal" /\ lastCall' \in {"init", "apply", "exit"}

\* what a stroke event does on a brush of radius <= 0, apart from reporting:
\* it completes, writes no UV and influences no loop, so that the falloff
\* (evaluated for influenced loops only) is not evaluated
DegenerateNoOp ==
    /\ lastResult' = "RUNNING_MODAL"
    /\ uv' = uv
    /\ loop_info' = <<>>
    /\ \A l \in LoopSet : ~Influenced(l, initial_mco')

\* C19 as claimed: with radius <= 0 the condition is reported to the user
\* and every stroke event (press/Init, move or tick/Apply, release/Exit)
\* with any tool is a no-op on the mesh UVs; no loop is influenced and the
\* falloff is never evaluated with a zero divisor.
C19_DegenerateRadiusReported ==
    [][(StrokeEvent /\ RLe(sc.muv_uvsculpt_radius, RZero))
        => (lastReport' # NoReport /\ DegenerateNoOp)]_vars

\* C19 amended: with radius <= 0 nothing is reported to the user; every
\* stroke event with any tool completes and is a no-op on the mesh UVs, no
\* loop is influenced and the falloff is never evaluated.
C19_DegenerateRadiusSilentNoOp ==
    [][(StrokeEvent /\ RLe(sc.muv_uvsculpt_radius, RZero))
        => (lastReport' = NoReport /\ DegenerateNoOp)]_vars

\* C19 witness: a Grab stroke with radius 0 pressed exactly on a vertex
\* (distance 0), dragged and released
C19_Witness ==
    /\ lastOp = "modal" /\ lastCall = "exit" /\ sc.muv_uvsculpt_tools = "GRAB"
    /\ sc.muv_uvsculpt_radius = RZero
    /\ \E l \in LoopSet : l[1] \in select /\ Loc2d[VertOf(l)] = initial_mco
    /\ current_mco # initial_mco
    /\ uv = InitialUV /\ loop_info = <<>>

\* the total number of rotate steps of the calls so far
RECURSIVE TotalRotate(_)
TotalRotate(h) == IF h = <<>> THEN 0 ELSE Head(h)[2] + TotalRotate(Tail(h))

\* C16: rotate/flip round-trip.  Rotating a captured per-face sequence of
\* length N by k steps is a right rotation: destination loop j (from 0)
\* receives source element (j - k) mod N; rotating by N steps, or any
\* multiple of N, reproduces the original sequence, in one call or over
\* several; and flipping twice reproduces the original sequence.
C16_RotateFlipRoundTrip ==
    fr.calls >= 1 =>
        LET N == Len(fr.src)
            k == TotalRotate(fr.history)
            flips == {c \in DOMAIN fr.history : fr.history[c][1]}
        IN  /\ Len(fr.out) = N
            /\ flips = {} =>
                 /\ \A j \in 0 .. N - 1 : fr.out[j + 1] = fr.src[((j - k) % N) + 1]
                 /\ k % N = 0 => fr.out = fr.src
            /\ (fr.calls = 2 /\ flips = {1, 2} /\ k = 0) => fr.out = fr.src

\* C16 witness: a quad's list rotated by 3 and then by 5 steps (8 = 2 N) is
\* the list captured, having been a different list in between
C16_Witness ==
    /\ fr.calls = 2 /\ fr.src = <<1, 2, 3, 4>>
    /\ fr.history = << <<FALSE, 3>>, <<FALSE, 5>> >>
    /\ rotate(fr.src, 3) = <<2, 3, 4, 1>>
    /\ fr.out = fr.src

\* the clipboard a paste operator reads, as three lists (the face operators
\* keep one record per face)
ClipOf(op) ==
    CASE op = "MUV_CPUVPasteUV" ->
           LET info == props.cpuv.src_info
           IN  IF info = <<>> THEN EmptyClip
               ELSE [src_uvs |-> [k \in DOMAIN info |-> info[k].src_uvs],
                     src_pin_uvs |-> [k \in DOMAIN info |-> info[k].src_pin_uvs],
                     src_seams |-> [k \in DOMAIN info |-> info[k].src_seams]]
      [] op = "MUV_CPUVSelSeqPasteUV" -> props.cpuv_selseq
      [] op = "MUV_CPUVObjPasteUV" -> props.cpuv_obj

\* a step of a paste operator
PasteStep == pastes' = pastes + 1

\* the destination face at position k has a loop count different from its
\* matched source face
Mismatched(clip, o, dest, strategy, k) ==
    LET s == SrcIndex(strategy, k, Len(clip.src_uvs))
    IN  s \in DOMAIN clip.src_uvs /\ Len(clip.src_uvs[s]) # Len(MeshFaces[o][dest[k]])

\* the paste of clip onto the faces dest of object o gets as far as its
\* paste loop
ReachesLoop(clip, o, dest, strategy) ==
    /\ clip.src_uvs # <<>> /\ HasUVLayer(o) /\ dest # <<>>
    /\ strategy = "N_N" => Len(clip.src_uvs) = Len(dest)

\* uv, pin flags and seam flags of face f of object o are as before the step
FaceUntouched(o, f) ==
    /\ objects'[o].uv[f] = objects[o].uv[f]
    /\ objects'[o].pin_uv[f] = objects[o].pin_uv[f]
    /\ FaceSeams(objects'[o], o, f) = FaceSeams(objects[o], o, f)

\* face dest[j] of object o holds the UVs and pin flags pasted onto it
FacePasted(clip, o, dest, call, j) ==
    LET s == SrcIndex(call.strategy, j, Len(clip.src_uvs))
    IN  /\ objects'[o].uv[dest[j]] = flip_rotate(clip.src_uvs[s], call.flip, call.rotate)
        /\ objects'[o].pin_uv[dest[j]] =
              flip_rotate(clip.src_pin_uvs[s], call.flip, call.rotate)

\* the shape check as claimed, for the first mismatched position k
ShapeCheck(clip, o, dest, call) ==
    \A k \in DOMAIN dest :
        (/\ Mismatched(clip, o, dest, call.strategy, k)
         /\ \A j \in 1 .. k - 1 : ~Mismatched(clip, o, dest, call.strategy, j)) =>
            /\ lastResult' = "CANCELLED"
            /\ lastReport'.level = "WARNING"
            /\ \A j \in k .. Len(dest) : FaceUntouched(o, dest[j])
            /\ \A j \in 1 .. k - 1 : FacePasted(clip, o, dest, call, j)

\* the paste among objects reaches the paste loop of object o: every
\* selected object before it was pasted in full
ObjReachesLoop(clip, sel, o) ==
    /\ ReachesLoop(clip, o, InOrder(FacesOf(o)), "N_N")
    /\ \A b \in sel : ObjectIndex(b) < ObjectIndex(o) =>
          /\ ReachesLoop(clip, b, InOrder(FacesOf(b)), "N_N")
          /\ \A k \in FacesOf(b) : ~Mismatched(clip, b, InOrder(FacesOf(b)), "N_N", k)

\* C17: paste shape check.  For every paste operator and strategy, when the
\* destination face at position k has a loop count different from its
\* matched source face, the paste reports a warning and returns cancelled
\* without raising; no UV, pin or seam of destination face k or of a later
\* destination face is written, and the destination faces before k keep the
\* values pasted onto them.
C17_PasteShapeCheck ==
    [][PasteStep =>
        LET call == lastPaste'
            clip == ClipOf(call.op)
        IN  IF call.op = "MUV_CPUVObjPasteUV"
            THEN \A o \in call.sel :
                    ObjReachesLoop(clip, call.sel, o) =>
                        ShapeCheck(clip, o, InOrder(FacesOf(o)), call)
            ELSE ReachesLoop(clip, call.obj, call.dest, call.strategy) =>
                    ShapeCheck(clip, call.obj, call.dest, call)]_vars

\* C20: face-count check.  A paste with strategy N_N, and every paste among
\* objects, whose number of destination faces differs from the number of
\* copied source faces reports a warning and returns cancelled before any
\* write: every UV, pin flag and seam flag of the destination mesh is
\* unchanged.
C20_FaceCountCheck ==
    [][PasteStep =>
        LET call == lastPaste'
            clip == ClipOf(call.op)
        IN  IF call.op = "MUV_CPUVObjPasteUV"
            THEN \A o \in call.sel :
                    Len(clip.src_uvs) # Len(MeshFaces[o]) =>
                        /\ lastResult' = "CANCELLED"
                        /\ lastReport'.level = "WARNING"
                        /\ objects'[o] = objects[o]
            ELSE (call.strategy = "N_N" /\ Len(clip.src_uvs) # Len(call.dest)) =>
                        /\ lastResult' = "CANCELLED"
                        /\ lastReport'.level = "WARNING"
                        /\ objects'[call.obj] = objects[call.obj]]_vars

\* C22: a stroke cannot be ended from outside the viewport.  A release
\* delivered while Stroking with the cursor outside the viewport leaves the
\* machine in Stroking and runs no Exit; an event ends Stroking only if it
\* is a release inside the viewport, which runs Exit; and every move or
\* timer event handled inside the viewport while Stroking applies the tool,
\* whatever happened to the button.
C22_ReleaseOutsideKeepsStroking ==
    [][/\ (Handled("RELEASE") /\ stroking /\ OutsideViewport(current_mco'))
            => /\ stroking' /\ lastCall' = "none"
               /\ UNCHANGED <<initial_mco, loop_info, uv>>
       /\ (lastOp' = "modal" /\ stroking /\ ~stroking')
            => /\ lastEvent' = "RELEASE" /\ ~OutsideViewport(current_mco')
               /\ lastCall' = "exit"
       /\ (/\ lastOp' = "modal" /\ lastResult' # "TypeError" /\ stroking
           /\ lastEvent' \in {"MOUSEMOVE", "TIMER"} /\ ~OutsideViewport(current_mco'))
            => (lastCall' = "apply" /\ stroking')]_vars

\* C22 witness: a Grab stroke after a release outside the viewport: still
\* Stroking, and a move to some position inside the viewport would move UVs
C22_Witness ==
    /\ lastOp = "modal" /\ lastEvent = "RELEASE" /\ lastResult = "PASS_THROUGH"
    /\ stroking /\ OutsideViewport(current_mco) /\ is_running
    /\ sc.muv_uvsculpt_tools = "GRAB"
    /\ \E p \in InViewPos : Grab(uv, p) # uv

\* the strength Init stored for loop l
InitStrength(l) == InfoOf(loop_info, l).strength

\* the UV a Relax tick gives a loop of strength s, from the vertex data db of
\* the pre-tick UVs, when the loops over the vertices ended on vertex key
RelaxTarget(l, db, key, s) ==
    LET v == VertOf(l)
        base == VScale(uv[l], RSub(ROne, s))
    IN  IF sc.muv_uvsculpt_relax_method = "HC"
        THEN LET t == VScale(VAdd(db[v].uv_b,
                                  VDiv(db[v].uv_sum_b, RInt(db[key].uv_count))),
                             Rat(1, 2))
             IN  VAdd(base, VScale(VSub(db[v].uv_p, t), s))
        ELSE VAdd(base, VScale(db[v].uv_p, s))

\* C23: Pinch and Relax measure the brush distance from the cursor captured
\* at press.  On every Pinch or Relax tick of a stroke, wherever the cursor
\* of the tick is, the loops written are loops of the influence set computed
\* at Init and each is moved with the strength Init computed for it; the set
\* and the press cursor are not changed by the tick.
C23_DistanceFromPressCursor ==
    [][(lastOp' = "modal" /\ lastCall' = "apply"
          /\ sc.muv_uvsculpt_tools \in {"PINCH", "RELAX"})
        => /\ UNCHANGED <<initial_mco, loop_info>>
           /\ \A l \in LoopSet \ InfoLoops(loop_info) : uv'[l] = uv[l]
           /\ (sc.muv_uvsculpt_tools = "PINCH" /\ lastHit' # NoHit) =>
                 LET targetUV == barycentric_transform(lastHit', uv)
                 IN  \A l \in InfoLoops(loop_info) :
                        LET delta == IF sc.muv_uvsculpt_pinch_invert
                                     THEN VSub(uv[l], targetUV)
                                     ELSE VSub(targetUV, uv[l])
                        IN  uv'[l] = VAdd(uv[l],
                                  VDiv(VScale(delta, InitStrength(l)), RInt(10)))
           /\ sc.muv_uvsculpt_tools = "RELAX" =>
                 LET db == vert_db(uv)
                 IN  \E key \in Verts : \A l \in InfoLoops(loop_info) :
                        uv'[l] = RelaxTarget(l, db, key, InitStrength(l))]_vars

\* C23 witness: a Pinch tick with a hit, at a cursor that is not the press
\* cursor and under which the brush would cover another set of loops, has
\* moved a loop
C23_Witness ==
    /\ lastOp = "modal" /\ lastCall = "apply" /\ sc.muv_uvsculpt_tools = "PINCH"
    /\ lastHit # NoHit /\ current_mco # initial_mco
    /\ InfoLoops(Influence(current_mco, uv)) # InfoLoops(loop_info)
    /\ \E l \in InfoLoops(loop_info) : uv[l] # InitialUV[l]

\* a step of a paste operator that returned FINISHED
PasteFinished == PasteStep /\ lastResult' = "FINISHED"

\* the source position (from 1) the pairing rule gives destination position
\* j (from 1): source j - 1 with N_N, source (j - 1) mod S with N_M
PairedSource(strategy, j, S) == IF strategy = "N_N" THEN j ELSE ((j - 1) % S) + 1

\* C21: source/destination pairing.  In a successful paste the i-th
\* destination face (in selection order) holds the data of source face i
\* under N_N and of source face i mod S under N_M, S being the number of
\* copied faces, so every destination face is written; with no flip and
\* rotate 0 destination loop j holds exactly the UV and the pin flag copied
\* from source loop j.
C21_Pairing ==
    [][(PasteFinished /\ lastPaste'.op \in {"MUV_CPUVPasteUV", "MUV_CPUVSelSeqPasteUV"}) =>
        LET call == lastPaste'
            clip == ClipOf(call.op)
            S == Len(clip.src_uvs)
        IN  \A j \in DOMAIN call.dest :
               LET s == PairedSource(call.strategy, j, S)
                   f == call.dest[j]
               IN  /\ s \in 1 .. S
                   /\ objects'[call.obj].uv[f] =
                         flip_rotate(clip.src_uvs[s], call.flip, call.rotate)
                   /\ objects'[call.obj].pin_uv[f] =
                         flip_rotate(clip.src_pin_uvs[s], call.flip, call.rotate)
                   /\ (~call.flip /\ call.rotate = 0) =>
                         \A l \in DOMAIN MeshFaces[call.obj][f] :
                            /\ objects'[call.obj].uv[f][l] = clip.src_uvs[s][l]
                            /\ objects'[call.obj].pin_uv[f][l] = clip.src_pin_uvs[s][l]]_vars

\* C21 witness: one triangle copied, then pasted with N_M, no flip and
\* rotate 0 onto two triangles in the order 2, 1 (more destination faces
\* than source faces): both hold the copied UVs
C21_Witness ==
    /\ lastOp = "MUV_CPUVSelSeqPasteUV" /\ lastResult = "FINISHED"
    /\ lastPaste.strategy = "N_M" /\ lastPaste.dest = <<2, 1>>
    /\ ~lastPaste.flip /\ lastPaste.rotate = 0
    /\ Len(props.cpuv_selseq.src_uvs) = 1
    /\ objects["P"].uv[2] = props.cpuv_selseq.src_uvs[1]
    /\ objects["P"].uv[1] = props.cpuv_selseq.src_uvs[1]
    /\ objects["P"].uv[2] # InitialObjects["P"].uv[2]

\* the source loop (from 1) whose data destination loop j (from 1) of a face
\* of N loops receives with rotate k: index (j - k) mod N counted from 0
\* without flip, N - 1 - ((j - k) mod N) with flip
SourceLoop(j, k, N, flip) ==
    LET r == ((j - 1) - k) % N
    IN  IF flip THEN N - r ELSE r + 1

\* every destination face the paste loop gets to holds, loop by loop, the UV,
\* the pin flag and (with copy_seams) the seam flag of the source loop the
\* index rule names; without copy_seams no seam flag of the object changed
Aligned(clip, o, dest, call) ==
    /\ \A j \in DOMAIN dest :
          (\A i \in 1 .. j : ~Mismatched(clip, o, dest, call.strategy, i)) =>
             LET s == PairedSource(call.strategy, j, Len(clip.src_uvs))
                 f == dest[j]
                 N == Len(MeshFaces[o][f])
             IN  \A l \in 1 .. N :
                    LET q == SourceLoop(l, call.rotate, N, call.flip)
                    IN  /\ objects'[o].uv[f][l] = clip.src_uvs[s][q]
                        /\ objects'[o].pin_uv[f][l] = clip.src_pin_uvs[s][q]
                        /\ call.copy_seams =>
                              objects'[o].seam[LoopEdge(o, f, l)] = clip.src_seams[s][q]
    /\ ~call.copy_seams => objects'[o].seam = objects[o].seam

\* C24: flip/rotate alignment.  In a paste with flip f and rotate k onto a
\* face of N loops, destination loop j receives the UV, the pin flag and
\* (when copy_seams is set) the seam flag of one and the same source loop,
\* (j - k) mod N without flip and N - 1 - ((j - k) mod N) with flip (flip is
\* applied before rotate); when copy_seams is not set no seam flag is
\* changed.
C24_FlipRotateAligned ==
    [][PasteStep =>
        LET call == lastPaste'
            clip == ClipOf(call.op)
        IN  IF call.op = "MUV_CPUVObjPasteUV"
            THEN \A o \in call.sel :
                    ObjReachesLoop(clip, call.sel, o) =>
                        Aligned(clip, o, InOrder(FacesOf(o)), call)
            ELSE ReachesLoop(clip, call.obj, call.dest, call.strategy) =>
                    Aligned(clip, call.obj, call.dest, call)]_vars

\* a step of a copy operator
CopyStep == copies' = copies + 1

\* the paste operator that reads the clipboard a copy operator writes
PasteOf(op) ==
    IF op = "MUV_CPUVCopyUV" THEN "MUV_CPUVPasteUV" ELSE "MUV_CPUVSelSeqPasteUV"

\* C25: a copy that fails for lack of selected faces destroys the
\* clipboard.  A face copy or selection-sequence copy run with no face
\* selected (on a mesh with a UV layer) returns cancelled and leaves its
\* clipboard empty, whatever was captured before; a paste issued right after
\* it is refused with 'Need copy UV at first' and writes nothing; a copy
\* cancelled because the mesh has no UV layer leaves every clipboard as it
\* was.
C25_FailedCopyEmptiesClipboard ==
    [][/\ (CopyStep /\ lastPaste'.op \in {"MUV_CPUVCopyUV", "MUV_CPUVSelSeqCopyUV"}) =>
             LET call == lastPaste'
             IN  /\ (HasUVLayer(call.obj) /\ call.dest = <<>>) =>
                       /\ lastResult' = "CANCELLED"
                       /\ IF call.op = "MUV_CPUVCopyUV"
                          THEN props'.cpuv.src_info = <<>>
                          ELSE props'.cpuv_selseq = EmptyClip
                 /\ ~HasUVLayer(call.obj) =>
                       (lastResult' = "CANCELLED" /\ props' = props)
       /\ (/\ PasteStep
           /\ lastOp \in {"MUV_CPUVCopyUV", "MUV_CPUVSelSeqCopyUV"}
           /\ HasUVLayer(lastPaste.obj) /\ lastPaste.dest = <<>>
           /\ lastPaste'.op = PasteOf(lastOp)) =>
             /\ lastResult' = "CANCELLED"
             /\ lastReport' = Report("WARNING", "Need copy UV at first")
             /\ objects' = objects]_vars

\* C25 witness: a selection-sequence copy with no face selected, run when
\* the clipboard held a captured face, was cancelled and the clipboard is
\* empty
C25_Witness ==
    /\ lastOp = "MUV_CPUVSelSeqCopyUV" /\ lastResult = "CANCELLED"
    /\ lastReport.msg = "No faces are selected"
    /\ lastPaste.dest = <<>> /\ lastPaste.old # EmptyClip
    /\ props.cpuv_selseq = EmptyClip

====
